---- MODULE Spec2Model ----
(***************************************************************************)
(* Model of cznic/bench: the tool that runs every benchmark of a package   *)
(* in its own "go test" process and re-emits the collected result lines.   *)
(*                                                                         *)
(* Two revisions of main() are in the repository: src/main.go (no          *)
(* positional argument, raw result lines are passed through) and the       *)
(* revision listed in src/README.md (optional import path argument,        *)
(* result lines are parsed and re-formatted).  The variable `variant`      *)
(* selects the revision: "B" is src/main.go, "A" is src/README.md.         *)
(*                                                                         *)
(* Byte slices and strings are sequences of one-character strings.         *)
(* Durations are integers counting milliseconds (time.Duration counts      *)
(* nanoseconds; every duration text of the model is a whole number of      *)
(* milliseconds).  A float64 is a record [kind, neg, milli]: its sign and  *)
(* its magnitude in thousandths, or kind "nan" / "inf".                    *)
(***************************************************************************)
EXTENDS Integers, Sequences, FiniteSets, TLC

(***************************************************************************)
(* Bounds of the model.                                                    *)
(***************************************************************************)
MaxFiles == 2

(***************************************************************************)
(* Characters and literals of the program text.                            *)
(***************************************************************************)
NL == "\n"
TAB == "\t"
SP == " "

DigitChars == <<"0", "1", "2", "3", "4", "5", "6", "7", "8", "9">>

DigitSet == {DigitChars[i] : i \in 1..Len(DigitChars)}

IsDigit(c) == c \in DigitSet

DigitVal(c) == (CHOOSE i \in 1..Len(DigitChars) : DigitChars[i] = c) - 1

FuncKw == <<"f", "u", "n", "c", " ">>

FuncBenchmark == FuncKw \o <<"B", "e", "n", "c", "h", "m", "a", "r", "k">>

BenchmarkWord == <<"B", "e", "n", "c", "h", "m", "a", "r", "k">>

PassLine == <<"P", "A", "S", "S">>

OkPrefix(path) == <<"o", "k", " ", " ", TAB>> \o path \o <<TAB>>

(***************************************************************************)
(* bytes / strings helpers.                                                *)
(***************************************************************************)
HasPrefix(s, p) == Len(s) >= Len(p) /\ SubSeq(s, 1, Len(p)) = p

\* bytes.Index / strings.Index for a one byte separator: 0-based, -1 if absent.
Min(S) == CHOOSE i \in S : \A j \in S : i <= j

Index(s, c) ==
    LET at == {i \in 1..Len(s) : s[i] = c}
    IN  IF at = {} THEN -1 ELSE Min(at) - 1

RECURSIVE Split(_, _)
Split(b, c) ==
    LET i == Index(b, c)
    IN  IF i = -1 THEN <<b>>
        ELSE <<SubSeq(b, 1, i)>> \o Split(SubSeq(b, i + 2, Len(b)), c)

IsSpace(c) == c \in {SP, TAB, NL, "\r"}

\* The position of the first space, Len(s) + 1 if there is none.
FirstSpace(s) ==
    LET at == {i \in 1..Len(s) : IsSpace(s[i])}
    IN  IF at = {} THEN Len(s) + 1 ELSE Min(at)

\* strings.Fields: the maximal runs of non-space characters.
RECURSIVE Fields(_)
Fields(s) ==
    IF Len(s) = 0 THEN <<>>
    ELSE IF IsSpace(s[1]) THEN Fields(Tail(s))
    ELSE LET stop == FirstSpace(s)
         IN  <<SubSeq(s, 1, stop - 1)>> \o Fields(SubSeq(s, stop, Len(s)))

RECURSIVE Spaces(_)
Spaces(n) == IF n <= 0 THEN <<>> ELSE <<SP>> \o Spaces(n - 1)

\* %*s with a negative width: pad on the right.
PadRight(s, w) == s \o Spaces(w - Len(s))

\* %15d, %15s, %15v: pad on the left.
PadLeft(s, w) == Spaces(w - Len(s)) \o s

AllDigits(s) == Len(s) > 0 /\ \A i \in 1..Len(s) : IsDigit(s[i])

RECURSIVE DigitsVal(_)
DigitsVal(s) ==
    IF Len(s) = 0 THEN 0
    ELSE 10 * DigitsVal(SubSeq(s, 1, Len(s) - 1)) + DigitVal(s[Len(s)])

RECURSIVE FormatNat(_)
FormatNat(n) ==
    IF n < 10 THEN <<DigitChars[n + 1]>>
    ELSE FormatNat(n \div 10) \o <<DigitChars[(n % 10) + 1]>>

FormatInt(n) == IF n < 0 THEN <<"-">> \o FormatNat(-n) ELSE FormatNat(n)

(***************************************************************************)
(* strconv.  A result is [ok, val]; ok = FALSE is a non-nil error.         *)
(***************************************************************************)
Fail == [ok |-> FALSE, val |-> 0]

Ok(v) == [ok |-> TRUE, val |-> v]

\* strconv.Atoi: an optional sign and decimal digits.
Atoi(s) ==
    LET signed == Len(s) > 0 /\ s[1] \in {"+", "-"}
        body == IF signed THEN Tail(s) ELSE s
    IN  IF ~AllDigits(body) THEN Fail
        ELSE IF signed /\ s[1] = "-" THEN Ok(-DigitsVal(body))
        ELSE Ok(DigitsVal(body))

\* strconv.ParseUint(s, 10, 64): decimal digits, no sign.
ParseUint(s) == IF AllDigits(s) THEN Ok(DigitsVal(s)) ELSE Fail

Float(kind, neg, milli) == [kind |-> kind, neg |-> neg, milli |-> milli]

\* The fraction digits as thousandths (digits after the third are dropped).
FracMilli(f) ==
    LET d == SubSeq(f \o <<"0", "0", "0">>, 1, 3)
    IN  DigitsVal(d)

\* strconv.ParseFloat(s, 64) for the decimal forms [+-]ddd[.ddd], NaN and
\* [+-]Inf (exponents, hexadecimal forms and other spellings of NaN and Inf
\* are not among the texts of the model).
ParseFloat(s) ==
    LET signed == Len(s) > 0 /\ s[1] \in {"+", "-"}
        neg == signed /\ s[1] = "-"
        body == IF signed THEN Tail(s) ELSE s
        dot == Index(body, ".")
        ip == IF dot = -1 THEN body ELSE SubSeq(body, 1, dot)
        fp == IF dot = -1 THEN <<>> ELSE SubSeq(body, dot + 2, Len(body))
    IN  IF body = <<"N", "a", "N">> THEN Ok(Float("nan", FALSE, 0))
        ELSE IF body = <<"I", "n", "f">> THEN Ok(Float("inf", neg, 0))
        ELSE IF Len(ip) + Len(fp) = 0 THEN Fail
        ELSE IF \E i \in 1..Len(ip) : ~IsDigit(ip[i]) THEN Fail
        ELSE IF \E i \in 1..Len(fp) : ~IsDigit(fp[i]) THEN Fail
        ELSE Ok(Float("num", neg, 1000 * DigitsVal(ip) + FracMilli(fp)))

\* fmt.Sprintf("%.2f", f): the value rounded to hundredths.
FormatF2(f) ==
    LET cents == (f.milli + 5) \div 10
        frac == cents % 100
    IN  IF f.kind = "nan" THEN <<"N", "a", "N">>
        ELSE IF f.kind = "inf"
        THEN (IF f.neg THEN <<"-">> ELSE <<"+">>) \o <<"I", "n", "f">>
        ELSE (IF f.neg THEN <<"-">> ELSE <<>>)
             \o FormatNat(cents \div 100) \o <<".">>
             \o <<DigitChars[(frac \div 10) + 1], DigitChars[(frac % 10) + 1]>>

(***************************************************************************)
(* time.ParseDuration and time.Duration.String, in milliseconds.  The       *)
(* units below a millisecond (ns, us) are not among the texts of the       *)
(* model, and a total stays far from the range of an int64 of nanoseconds. *)
(***************************************************************************)
UnitMs(u) ==
    IF u = <<"m", "s">> THEN 1
    ELSE IF u = <<"s">> THEN 1000
    ELSE IF u = <<"m">> THEN 60000
    ELSE IF u = <<"h">> THEN 3600000
    ELSE 0

\* Length of the leading run of digits.
RECURSIVE LeadingDigits(_)
LeadingDigits(s) ==
    IF Len(s) > 0 /\ IsDigit(s[1]) THEN 1 + LeadingDigits(Tail(s)) ELSE 0

IsNumChar(c) == IsDigit(c) \/ c = "."

\* Length of the leading run of unit characters (up to a digit or a dot).
RECURSIVE LeadingUnit(_)
LeadingUnit(s) ==
    IF Len(s) > 0 /\ ~IsNumChar(s[1]) THEN 1 + LeadingUnit(Tail(s)) ELSE 0

RECURSIVE Pow10(_)
Pow10(n) == IF n = 0 THEN 1 ELSE 10 * Pow10(n - 1)

\* The loop of ParseDuration: one or more <number><unit> groups.
RECURSIVE ParseGroups(_)
ParseGroups(s) ==
    IF Len(s) = 0 THEN Ok(0)
    ELSE IF ~IsNumChar(s[1]) THEN Fail
    ELSE LET n1 == LeadingDigits(s)
             s1 == SubSeq(s, n1 + 1, Len(s))
             hasDot == Len(s1) > 0 /\ s1[1] = "."
             s2 == IF hasDot THEN Tail(s1) ELSE s1
             n2 == IF hasDot THEN LeadingDigits(s2) ELSE 0
             s3 == SubSeq(s2, n2 + 1, Len(s2))
             n3 == LeadingUnit(s3)
             unit == UnitMs(SubSeq(s3, 1, n3))
             v == DigitsVal(SubSeq(s, 1, n1)) * unit
                  + (DigitsVal(SubSeq(s2, 1, n2)) * unit) \div Pow10(n2)
             rest == ParseGroups(SubSeq(s3, n3 + 1, Len(s3)))
         IN  IF n1 = 0 /\ n2 = 0 THEN Fail
             ELSE IF n3 = 0 THEN Fail
             ELSE IF unit = 0 THEN Fail
             ELSE IF ~rest.ok THEN Fail
             ELSE Ok(v + rest.val)

ParseDuration(s) ==
    LET signed == Len(s) > 0 /\ s[1] \in {"+", "-"}
        neg == signed /\ s[1] = "-"
        body == IF signed THEN Tail(s) ELSE s
        r == ParseGroups(body)
    IN  IF body = <<"0">> THEN Ok(0)
        ELSE IF Len(body) = 0 THEN Fail
        ELSE IF ~r.ok THEN Fail
        ELSE IF neg THEN Ok(-r.val)
        ELSE r

\* The fraction of a second, trailing zeros dropped.
RECURSIVE TrimZeros(_)
TrimZeros(s) ==
    IF Len(s) > 0 /\ s[Len(s)] = "0" THEN TrimZeros(SubSeq(s, 1, Len(s) - 1))
    ELSE s

FormatDuration(d) ==
    LET u == IF d < 0 THEN -d ELSE d
        sign == IF d < 0 THEN <<"-">> ELSE <<>>
        ms == u % 1000
        secs == u \div 1000
        h == secs \div 3600
        m == (secs \div 60) % 60
        frac == TrimZeros(<<DigitChars[(ms \div 100) + 1],
                            DigitChars[((ms \div 10) % 10) + 1],
                            DigitChars[(ms % 10) + 1]>>)
    IN  IF d = 0 THEN <<"0", "s">>
        ELSE IF u < 1000 THEN sign \o FormatNat(u) \o <<"m", "s">>
        ELSE sign
             \o (IF h > 0 THEN FormatNat(h) \o <<"h">> ELSE <<>>)
             \o (IF h > 0 \/ m > 0 THEN FormatNat(m) \o <<"m">> ELSE <<>>)
             \o FormatNat(secs % 60)
             \o (IF Len(frac) > 0 THEN <<".">> \o frac ELSE <<>>)
             \o <<"s">>

(***************************************************************************)
(* golang.org/x/tools/benchmark/parse, as main() of src/README.md uses it. *)
(***************************************************************************)
ZeroFloat == Float("num", FALSE, 0)

NsOp == <<"n", "s", "/", "o", "p">>
MBs == <<"M", "B", "/", "s">>
BOp == <<"B", "/", "o", "p">>
AllocsOp == <<"a", "l", "l", "o", "c", "s", "/", "o", "p">>

\* (*Benchmark).parseMeasurement: a quantity that does not parse is dropped.
ParseMeasurement(b, quant, unit) ==
    LET f == ParseFloat(quant)
        u == ParseUint(quant)
    IN  IF unit = NsOp /\ f.ok
        THEN [b EXCEPT !.NsPerOp = f.val, !.Measured = @ \cup {"NsPerOp"}]
        ELSE IF unit = MBs /\ f.ok
        THEN [b EXCEPT !.MBPerS = f.val, !.Measured = @ \cup {"MBPerS"}]
        ELSE IF unit = BOp /\ u.ok
        THEN [b EXCEPT !.AllocedBytesPerOp = u.val,
                       !.Measured = @ \cup {"AllocedBytesPerOp"}]
        ELSE IF unit = AllocsOp /\ u.ok
        THEN [b EXCEPT !.AllocsPerOp = u.val, !.Measured = @ \cup {"AllocsPerOp"}]
        ELSE b

\* The loop of ParseLine over the (quantity, unit) pairs i .. len(fields)/2 - 1.
RECURSIVE ParsePairs(_, _, _)
ParsePairs(b, fields, i) ==
    IF i >= Len(fields) \div 2 THEN b
    ELSE ParsePairs(ParseMeasurement(b, fields[2 * i + 1], fields[2 * i + 2]),
                    fields, i + 1)

ParseLine(line) ==
    LET fields == Fields(line)
        n == Atoi(fields[2])
        b0 == [Name |-> fields[1], N |-> n.val, NsPerOp |-> ZeroFloat,
               MBPerS |-> ZeroFloat, AllocedBytesPerOp |-> 0, AllocsPerOp |-> 0,
               Measured |-> {}]
    IN  IF Len(fields) < 2 THEN Fail
        ELSE IF ~HasPrefix(fields[1], BenchmarkWord) THEN Fail
        ELSE IF ~n.ok THEN Fail
        ELSE Ok(ParsePairs(b0, fields, 1))

(***************************************************************************)
(* main(): the pure parts.                                                 *)
(***************************************************************************)
ColWidth == 15

NamePad == 4

\* The ns/op text: "%.2f", cut by three characters when the decimal point
\* is at an index above 2.
MinDotIndex == 2

\* A cut decided by the number of digits before the decimal point.
NsTextByDigits(f) ==
    LET s == FormatF2(f)
        dot == Index(s, ".")
        digits == IF f.neg THEN dot - 1 ELSE dot
    IN  IF digits > MinDotIndex THEN SubSeq(s, 1, Len(s) - 3) ELSE s

NsText(f) ==
    LET s == FormatF2(f)
    IN  IF Index(s, ".") > MinDotIndex THEN SubSeq(s, 1, Len(s) - 3) ELSE s

\* The formatted record of a parsed result line, with its newline.
FormatRecord(b, width) ==
    PadRight(b.Name, width + NamePad) \o PadLeft(FormatInt(b.N), ColWidth)
    \o (IF "NsPerOp" \in b.Measured
        THEN PadLeft(NsText(b.NsPerOp), ColWidth) \o <<SP>> \o NsOp ELSE <<>>)
    \o (IF "MBPerS" \in b.Measured
        THEN PadLeft(FormatF2(b.MBPerS), ColWidth) \o <<SP>> \o MBs ELSE <<>>)
    \o (IF "AllocedBytesPerOp" \in b.Measured
        THEN PadLeft(FormatNat(b.AllocedBytesPerOp), ColWidth) \o <<SP>> \o BOp
        ELSE <<>>)
    \o (IF "AllocsPerOp" \in b.Measured
        THEN PadLeft(FormatNat(b.AllocsPerOp), ColWidth) \o <<SP>> \o AllocsOp
        ELSE <<>>)
    \o <<NL>>

\* One line of a test file: skipped, an identifier, or a panic of the slice
\* expression v[:bytes.Index(v, "(")] when the line holds no "(".
ScanLine(line) ==
    LET v == SubSeq(line, Len(FuncKw) + 1, Len(line))
        n == Index(v, "(")
    IN  IF ~HasPrefix(line, FuncBenchmark) THEN [panic |-> FALSE, ids |-> <<>>]
        ELSE IF n < 0 THEN [panic |-> TRUE, ids |-> <<>>]
        ELSE [panic |-> FALSE, ids |-> <<SubSeq(v, 1, n)>>]

\* The inner loop over the lines of one file; it stops at a panic.
RECURSIVE ScanLines(_)
ScanLines(lines) ==
    IF Len(lines) = 0 THEN [panic |-> FALSE, ids |-> <<>>]
    ELSE LET r == ScanLine(lines[1])
             rest == ScanLines(Tail(lines))
         IN  IF r.panic THEN r
             ELSE [panic |-> rest.panic, ids |-> r.ids \o rest.ids]

ScanFile(b) == ScanLines(Split(b, NL))

RECURSIVE MaxLen(_)
MaxLen(ids) ==
    IF Len(ids) = 0 THEN 0
    ELSE LET m == MaxLen(Tail(ids))
         IN  IF Len(ids[1]) > m THEN Len(ids[1]) ELSE m

\* A pattern without its anchors.
BenchPatternLoose(v) == v

\* The -bench pattern of one identifier.
BenchPattern(v) == <<"^">> \o v \o <<"$">>

\* The argument list of the go command.
Args(var, v, path, benchmem) ==
    <<"test", "-run", "NONE", "-bench", BenchPattern(v)>>
    \o (IF var = "A" THEN <<path>> ELSE <<>>)
    \o (IF benchmem THEN <<"-benchmem">> ELSE <<>>)

\* A run that does not look at the error of the command.
CmdFailedIgnored(e) == FALSE

\* err != nil after cmd.CombinedOutput().
CmdFailed(e) == e

\* A total that keeps the last duration only.
AccumulateLast(total, d) == d

\* t += d
Accumulate(total, d) == total + d

\* len(a) < 3
TooShort(a) == Len(a) < 3

\* The conditions without the one on the PASS line.
BadShapeNoPass(a, v, p) ==
    \/ ~HasPrefix(a[1], v)
    \/ ~HasPrefix(a[3], p)

\* The three conditions on the first three lines of the output.
BadShape(a, v, p) ==
    \/ ~HasPrefix(a[1], v)
    \/ a[2] # PassLine
    \/ ~HasPrefix(a[3], p)

\* A dump of the output that goes to standard output.
FatalTextToStdout(o) == o

\* log.Fatal and log.Fatalf write the message and the dump of the output to
\* standard error: nothing of it reaches standard output.
FatalText(o) == <<>>

\* A fallback that writes an empty line.
PassThroughEmpty(line) == <<NL>>

\* fmt.Printf("%s\n", a[0])
PassThrough(line) == line \o <<NL>>

\* The checks of one captured output.  The result names the log.Fatal that
\* ends the run ("" when none does), the parsed duration and the text
\* written to standard output.
ProcessOutput(var, v, path, w, o, e) ==
    LET a == Split(o, NL)
        p == OkPrefix(path)
        d == ParseDuration(SubSeq(a[3], Len(p) + 1, Len(a[3])))
        b == ParseLine(a[1])
        res(f, dur, text) == [fatal |-> f, d |-> dur, text |-> text]
    IN  IF CmdFailed(e) THEN res("exit", 0, FatalText(o))
        ELSE IF TooShort(a) THEN res("unrecognized", 0, FatalText(o))
        ELSE IF BadShape(a, v, p) THEN res("unexpected", 0, FatalText(o))
        ELSE IF ~d.ok THEN res("duration", 0, FatalText(o))
        ELSE IF var = "B" \/ ~b.ok THEN res("", d.val, PassThrough(a[1]))
        ELSE res("", d.val, FormatRecord(b.val, w))

\* Closing lines without the PASS line.
TrailerNoPass(path, total) ==
    <<"o", "k", " ", " ", TAB>> \o path \o <<TAB>> \o FormatDuration(total) \o <<NL>>

\* The two closing lines.
Trailer(path, total) ==
    PassLine \o <<NL>>
    \o <<"o", "k", " ", " ", TAB>> \o path \o <<TAB>> \o FormatDuration(total) \o <<NL>>

\* A command that is started and not waited for.
AfterStartNoWait == "loop"

\* cmd.CombinedOutput() returns only when the process has exited.
AfterStart == "wait"

(***************************************************************************)
(* The environment: test files and outputs of the go command.              *)
(***************************************************************************)
Str_A == <<"B", "e", "n", "c", "h", "m", "a", "r", "k", "A">>
Str_B == <<"B", "e", "n", "c", "h", "m", "a", "r", "k", "B">>
Str_C == <<"B", "e", "n", "c", "h", "m", "a", "r", "k", "C">>

FnDecl(name) == FuncKw \o name \o <<"(", "b", ")", " ", "{">>

\* Two benchmarks around a line that does not match.
FileAB == FnDecl(Str_A) \o <<NL, TAB, "}", NL>> \o FnDecl(Str_B) \o <<NL>>

\* An indented declaration (no match) and a second BenchmarkA.
FileA == <<SP>> \o FnDecl(Str_C) \o <<NL>> \o FnDecl(Str_A)

\* A matching line without "(" (inside a raw string literal, say).
FileNoParen == FnDecl(Str_B) \o <<NL>> \o FuncKw \o Str_C \o <<NL>> \o FnDecl(Str_A)

Files == {FileAB, FileA, FileNoParen}

RECURSIVE SeqsUpTo(_, _)
SeqsUpTo(S, n) ==
    IF n = 0 THEN {<<>>}
    ELSE LET shorter == SeqsUpTo(S, n - 1)
         IN  shorter \cup {Append(q, x) : q \in shorter, x \in S}

FileLists == SeqsUpTo(Files, MaxFiles)

ImportPath == <<"p">>

GoodOutput(first, path, dur, tail) ==
    first \o <<NL>> \o PassLine \o <<NL>> \o OkPrefix(path) \o dur \o tail

\* What one run of the go command for identifier v may print when it
\* exits with status 0.
Outputs(v, path) ==
    { \* a result line with all four measurements, and a line after the trailer
      GoodOutput(v \o <<"-", "4", SP, TAB, "2", "0", TAB, "1", "0", "6", ".", "5", SP>>
                   \o NsOp \o <<SP, "3", ".", "5", SP>> \o MBs \o <<SP, "1", "6", SP>> \o BOp
                   \o <<SP, "2", SP>> \o AllocsOp,
                 path, <<"1", "m", "1", ".", "0", "2", "1", "s">>, <<NL, "x", NL>>),
      \* an iteration count that is no number, and no final newline
      GoodOutput(v \o <<SP, "x">>, path, <<"2", "5", "0", "m", "s">>, <<>>),
      \* two lines only
      <<"F", "A", "I", "L", NL>>,
      \* the first line does not start with the identifier
      GoodOutput(<<"-">> \o v \o <<SP, "7">>, path, <<"1", "s">>, <<NL>>),
      \* the second line is not PASS
      v \o <<SP, "7", NL, "F", "A", "I", "L", NL>> \o OkPrefix(path) \o <<"1", "s", NL>>,
      \* the trailer names another package
      GoodOutput(v \o <<SP, "7">>, <<"q">>, <<"1", "s">>, <<NL>>),
      \* the duration has no unit
      GoodOutput(v \o <<SP, "7">>, path, <<"1">>, <<NL>>) }

\* What it may print when it exits with another status.
FailedOutputs(v, path) ==
    { <<"F", "A", "I", "L", NL>>,
      GoodOutput(v \o <<SP, "7">>, path, <<"1", "s">>, <<NL>>) }

\* The (output, error) pairs CombinedOutput may return.
CmdResults(v, path) ==
    {[out |-> o, err |-> FALSE] : o \in Outputs(v, path)}
    \cup {[out |-> o, err |-> TRUE] : o \in FailedOutputs(v, path)}

VARIABLES variant, pc, fatal, oBenchmem, importPath, testFiles, fi, bench, width,
          bi, t, stdout, invocations, running, out, err, outs

vars == <<variant, pc, fatal, oBenchmem, importPath, testFiles, fi, bench, width,
          bi, t, stdout, invocations, running, out, err, outs>>

Init ==
    /\ variant \in {"A", "B"}
    /\ pc = "start"
    /\ fatal = ""
    /\ oBenchmem = FALSE
    /\ importPath = <<>>
    /\ testFiles = <<>>
    /\ fi = 1
    /\ bench = <<>>
    /\ width = 0
    /\ bi = 1
    /\ t = 0
    /\ stdout = <<>>
    /\ invocations = <<>>
    /\ running = {}
    /\ out = <<>>
    /\ err = FALSE
    /\ outs = <<>>

\* log.Fatal: the process exits, nothing more is written.
Die(why) == pc' = "exit" /\ fatal' = why

\* Everything before the scan: the go tool is looked up, the flags are parsed,
\* the import path and the test files of the package are found.
Startup ==
    /\ pc = "start"
    /\ \E envOK \in BOOLEAN :
         IF envOK
         THEN /\ \E bm \in BOOLEAN, files \in FileLists :
                   /\ oBenchmem' = bm
                   /\ testFiles' = files
              /\ importPath' = ImportPath
              /\ pc' = "scan"
              /\ fatal' = fatal
         ELSE /\ Die("env")
              /\ UNCHANGED <<oBenchmem, testFiles, importPath>>
    /\ UNCHANGED <<variant, fi, bench, width, bi, t, stdout, invocations, running,
                   out, err, outs>>

\* One iteration of the loop over testFiles.
ReadAndScan ==
    /\ pc = "scan"
    /\ fi <= Len(testFiles)
    /\ \E readOK \in BOOLEAN :
         IF ~readOK
         THEN Die("read") /\ UNCHANGED <<fi, bench>>
         ELSE LET r == ScanFile(testFiles[fi])
              IN  /\ bench' = bench \o r.ids
                  /\ IF r.panic
                     THEN Die("panic") /\ fi' = fi
                     ELSE fi' = fi + 1 /\ UNCHANGED <<pc, fatal>>
    /\ UNCHANGED <<variant, oBenchmem, importPath, testFiles, width, bi, t, stdout,
                   invocations, running, out, err, outs>>

\* The loop over testFiles is over (revision A then computes the width).
ScanDone ==
    /\ pc = "scan"
    /\ fi > Len(testFiles)
    /\ width' = IF variant = "A" THEN MaxLen(bench) ELSE width
    /\ pc' = "loop"
    /\ UNCHANGED <<variant, fatal, oBenchmem, importPath, testFiles, fi, bench, bi, t,
                   stdout, invocations, running, out, err, outs>>

\* exec.Command(...) and the start of the process inside CombinedOutput.
StartCmd ==
    /\ pc = "loop"
    /\ bi <= Len(bench)
    /\ invocations' = Append(invocations, Args(variant, bench[bi], importPath, oBenchmem))
    /\ running' = running \cup {Len(invocations) + 1}
    /\ pc' = AfterStart
    /\ UNCHANGED <<variant, fatal, oBenchmem, importPath, testFiles, fi, bench, width,
                   bi, t, stdout, out, err, outs>>

\* The process exits; CombinedOutput returns its output and error.
CmdExit ==
    /\ pc = "wait"
    /\ \E r \in CmdResults(bench[bi], importPath) :
         /\ out' = r.out
         /\ err' = r.err
         /\ outs' = Append(outs, r)
    /\ running' = running \ {Len(invocations)}
    /\ pc' = "check"
    /\ UNCHANGED <<variant, fatal, oBenchmem, importPath, testFiles, fi, bench, width,
                   bi, t, stdout, invocations>>

\* The rest of the loop body: checks, t += d, the identifier's line.
Check ==
    /\ pc = "check"
    /\ LET r == ProcessOutput(variant, bench[bi], importPath, width, out, err)
       IN  IF r.fatal # ""
           THEN Die(r.fatal) /\ stdout' = stdout \o r.text /\ UNCHANGED <<t, bi>>
           ELSE /\ t' = Accumulate(t, r.d)
                /\ stdout' = stdout \o r.text
                /\ bi' = bi + 1
                /\ pc' = "loop"
                /\ fatal' = fatal
    /\ UNCHANGED <<variant, oBenchmem, importPath, testFiles, fi, bench, width,
                   invocations, running, out, err, outs>>

\* After the loop: PASS and the trailer, then main returns.
Finish ==
    /\ pc = "loop"
    /\ bi > Len(bench)
    /\ stdout' = stdout \o Trailer(importPath, t)
    /\ pc' = "done"
    /\ UNCHANGED <<variant, fatal, oBenchmem, importPath, testFiles, fi, bench, width,
                   bi, t, invocations, running, out, err, outs>>

Next ==
    \/ Startup
    \/ ReadAndScan
    \/ ScanDone
    \/ StartCmd
    \/ CmdExit
    \/ Check
    \/ Finish

Spec == Init /\ [][Next]_vars

(***************************************************************************)
(* The formatting of the ns/op column, on one benchmark of revision A and  *)
(* a wide range of result lines.                                           *)
(***************************************************************************)
NsSigns == {<<>>, <<"-">>}

NsInts == {<<"0">>, <<"7">>, <<"1", "2">>, <<"9", "9">>, <<"1", "0", "0">>,
           <<"1", "0", "6", "8">>}

NsFracs == {<<>>, <<".", "5">>, <<".", "3", "4">>, <<".", "9", "9", "9">>,
            <<".", "0", "0", "4">>}

NsQuantities ==
    {sg \o ip \o fp : sg \in NsSigns, ip \in NsInts, fp \in NsFracs}
    \cup {<<"N", "a", "N">>, <<"+", "I", "n", "f">>, <<"-", "I", "n", "f">>, <<"x">>}

FmtOutputs(v, path) ==
    {GoodOutput(v \o <<"-", "4", TAB, "2", "0", TAB>> \o q \o <<SP>> \o NsOp,
                path, <<"1", "s">>, <<NL>>) : q \in NsQuantities}
    \cup {GoodOutput(v \o <<"-", "4", TAB, "2", "0", TAB, "1", "6", SP>> \o BOp,
                     path, <<"1", "s">>, <<NL>>)}

\* The state of revision A after the scan of the single test file FileA.
InitFmt ==
    /\ variant = "A"
    /\ pc = "loop"
    /\ fatal = ""
    /\ oBenchmem \in BOOLEAN
    /\ importPath = ImportPath
    /\ testFiles = <<FileA>>
    /\ fi = 2
    /\ bench = <<Str_A>>
    /\ width = Len(Str_A)
    /\ bi = 1
    /\ t = 0
    /\ stdout = <<>>
    /\ invocations = <<>>
    /\ running = {}
    /\ out = <<>>
    /\ err = FALSE
    /\ outs = <<>>

CmdExitFmt ==
    /\ pc = "wait"
    /\ \E o \in FmtOutputs(bench[bi], importPath) :
         /\ out' = o
         /\ err' = FALSE
         /\ outs' = Append(outs, [out |-> o, err |-> FALSE])
    /\ running' = running \ {Len(invocations)}
    /\ pc' = "check"
    /\ UNCHANGED <<variant, fatal, oBenchmem, importPath, testFiles, fi, bench, width,
                   bi, t, stdout, invocations>>

NextFmt ==
    \/ StartCmd
    \/ CmdExitFmt
    \/ Check
    \/ Finish

SpecFmt == InitFmt /\ [][NextFmt]_vars

(***************************************************************************)
(* Properties.                                                             *)
(***************************************************************************)
\* The lines written to standard output so far (the text after the last
\* newline, empty when the output ends in a newline, is not among them).
StdoutLines == LET l == Split(stdout, NL) IN SubSeq(l, 1, Len(l) - 1)

StdoutEndsLine == LET l == Split(stdout, NL) IN l[Len(l)] = <<>>

IsTrailerLine(l) == HasPrefix(l, <<"o", "k", " ", " ", TAB>>)

NoSummaryIn(lines) ==
    \A i \in 1..Len(lines) : lines[i] # PassLine /\ ~IsTrailerLine(lines[i])

\* The text of a line after its n-th TAB.
RECURSIVE AfterTab(_, _)
AfterTab(l, n) ==
    IF n = 0 THEN l
    ELSE AfterTab(SubSeq(l, Index(l, TAB) + 2, Len(l)), n - 1)

\* The duration the trailer (third line) of a captured output reports.
TrailerDuration(o) == ParseDuration(AfterTab(Split(o, NL)[3], 2)).val

RECURSIVE SumDurations(_, _)
SumDurations(os, k) ==
    IF k = 0 THEN 0 ELSE SumDurations(os, k - 1) + TrailerDuration(os[k].out)

\* C1: when the go command exits non-zero on the k-th invocation, the run
\* aborts at once: no line is written for the k-th or a later identifier (the
\* output holds the k - 1 earlier lines only), no further invocation is
\* made, and neither PASS nor the trailer is ever written.
C1_AbortOnCommandError ==
    \A k \in 1..Len(outs) :
        outs[k].err =>
            /\ pc \in {"check", "exit"}
            /\ pc = "exit" => fatal = "exit"
            /\ Len(invocations) = k
            /\ Len(outs) = k
            /\ bi = k
            /\ StdoutEndsLine
            /\ LET lines == StdoutLines
               IN  Len(lines) = k - 1 /\ NoSummaryIn(lines)

C1_Witness ==
    /\ pc = "exit"
    /\ fatal = "exit"
    /\ Len(outs) = 2
    /\ outs[2].err
    /\ Len(bench) >= 3

\* C2: after k identifiers have been processed the total is the sum of the
\* trailer durations of those k runs, each counted once; the duration in the
\* final trailer is the sum over all identifiers; a run whose result line
\* does not parse into a record still contributes.
C2_TotalIsSum ==
    /\ pc \in {"loop", "wait", "check", "done"} => t = SumDurations(outs, bi - 1)
    /\ pc = "done" =>
          /\ bi - 1 = Len(bench)
          /\ Len(outs) = Len(bench)
          /\ LET last == StdoutLines[Len(StdoutLines)]
             IN  ParseDuration(AfterTab(last, 2)) = Ok(SumDurations(outs, Len(bench)))

C2_Witness ==
    /\ pc = "done"
    /\ variant = "A"
    /\ Len(bench) >= 3
    /\ \E i \in 1..Len(outs) : ~ParseLine(Split(outs[i].out, NL)[1]).ok
    /\ \E i \in 1..Len(outs) : ParseLine(Split(outs[i].out, NL)[1]).ok

\* An argument list that selects the benchmark v and no test.
ForIdentifier(args, v) ==
    /\ Len(args) >= 5
    /\ SubSeq(args, 1, 5) = <<"test", "-run", "NONE", "-bench", <<"^">> \o v \o <<"$">>>>

\* C3: in a run without a fatal condition the go command is invoked once per
\* discovered identifier, duplicates included, in discovery order, each time
\* with -run NONE and the -bench pattern ^identifier$.
C3_OneInvocationPerIdentifier ==
    /\ Len(invocations) <= Len(bench)
    /\ \A i \in 1..Len(invocations) : ForIdentifier(invocations[i], bench[i])
    /\ pc = "done" => Len(invocations) = Len(bench)

C3_Witness ==
    /\ pc = "done"
    /\ Len(invocations) >= 3
    /\ \E i, j \in 1..Len(bench) : i < j /\ bench[i] = bench[j]
    /\ \E i, j \in 1..Len(bench) : bench[i] # bench[j]

\* C4: at most one go process is in flight; the invocation for identifier
\* i + 1 starts only after the one for identifier i has exited and its output
\* has been checked, added to the total and written.
C4_OneProcessAtATime ==
    /\ Cardinality(running) <= 1
    /\ running \subseteq {Len(invocations)}
    /\ LET n == Len(invocations)
       IN  n > 1 =>
              /\ Len(outs) >= n - 1
              /\ \A i \in 1..(n - 1) : ~outs[i].err
              /\ bi >= n
              /\ Len(StdoutLines) >= n - 1
              /\ t = SumDurations(outs, bi - 1)

C4_Witness ==
    /\ pc = "wait"
    /\ Len(invocations) = 3
    /\ running = {3}

\* C5 as claimed: whenever the run aborts on a fatal condition, nothing has
\* been written to standard output.
C5_NoOutputOnAbort == pc = "exit" => stdout = <<>>

\* C5 as amended: when the run aborts, standard output holds no PASS line
\* and no trailer line, and no line of the identifier at which the run
\* aborted or of a later one: it holds exactly the lines of the bi - 1
\* identifiers processed before, and nothing when the run aborts before the
\* loop over the identifiers.
C5_NoSummaryOnAbort ==
    pc = "exit" =>
        /\ StdoutEndsLine
        /\ LET lines == StdoutLines
           IN  /\ NoSummaryIn(lines)
               /\ Len(lines) = bi - 1
               /\ \A i \in 1..Len(lines) : HasPrefix(lines[i], bench[i])
        /\ fatal \in {"env", "read", "panic"} => stdout = <<>>

C5_Witness ==
    /\ pc = "exit"
    /\ fatal \in {"unexpected", "duration"}
    /\ Len(StdoutLines) = 2

\* The identifiers the claim expects of the test files 1 .. k: one for each
\* line starting with "func Benchmark", the text after "func " up to the
\* first "(" (the whole rest of the line when it holds no "(").
NameOf(line) ==
    LET v == SubSeq(line, Len(FuncKw) + 1, Len(line))
        n == Index(v, "(")
    IN  IF n = -1 THEN v ELSE SubSeq(v, 1, n)

IsBenchmarkLine(line) == HasPrefix(line, FuncBenchmark)

RECURSIVE NamesOf(_)
NamesOf(lines) ==
    IF Len(lines) = 0 THEN <<>>
    ELSE (IF IsBenchmarkLine(lines[1]) THEN <<NameOf(lines[1])>> ELSE <<>>)
         \o NamesOf(Tail(lines))

RECURSIVE ExpectedIds(_, _)
ExpectedIds(files, k) ==
    IF k = 0 THEN <<>>
    ELSE ExpectedIds(files, k - 1) \o NamesOf(Split(files[k], NL))

\* C6 as claimed: for every set of source texts the scanner yields one
\* identifier per line starting with "func Benchmark", in file order and
\* line order, duplicates kept, each the text from the name up to the first
\* "(", also for a matching line without "(".
C6_ScannerYieldsEveryIdentifier ==
    /\ fatal # "panic"
    /\ pc = "scan" => bench = ExpectedIds(testFiles, fi - 1)
    /\ pc \in {"loop", "wait", "check", "done"} =>
          bench = ExpectedIds(testFiles, Len(testFiles))

\* Files whose matching lines all hold a "(".
AllHaveParen(files) ==
    \A k \in 1..Len(files) :
        LET lines == Split(files[k], NL)
        IN  \A i \in 1..Len(lines) :
                IsBenchmarkLine(lines[i]) => Index(lines[i], "(") # -1

\* What holds of the scanner (C6 restricted): the same, on files whose
\* matching lines all hold a "(".
C6_ScannerOnWellFormedFiles ==
    AllHaveParen(testFiles) =>
        /\ fatal # "panic"
        /\ pc = "scan" => bench = ExpectedIds(testFiles, fi - 1)
        /\ pc \in {"loop", "wait", "check", "done"} =>
              bench = ExpectedIds(testFiles, Len(testFiles))

\* C7: in a run without a fatal condition standard output is one line per
\* discovered identifier, in discovery order, then one PASS line, then one
\* trailer line "ok  <TAB>target<TAB>total"; PASS and the trailer are written
\* only after every identifier has been processed, also when there is none.
C7_ReportShape ==
    LET lines == StdoutLines
    IN  /\ pc = "done" =>
              /\ StdoutEndsLine
              /\ bi = Len(bench) + 1
              /\ Len(lines) = Len(bench) + 2
              /\ \A i \in 1..Len(bench) : HasPrefix(lines[i], bench[i])
              /\ lines[Len(bench) + 1] = PassLine
              /\ lines[Len(bench) + 2]
                   = <<"o", "k", " ", " ", TAB>> \o importPath \o <<TAB>>
                     \o FormatDuration(SumDurations(outs, Len(bench)))
        /\ pc # "done" => NoSummaryIn(lines) /\ Len(lines) <= bi - 1

C7_Witness ==
    /\ pc = "done"
    /\ Len(bench) >= 3
    /\ Len(StdoutLines) = Len(bench) + 2

C7_WitnessNoIdentifier ==
    /\ pc = "done"
    /\ Len(bench) = 0
    /\ Len(StdoutLines) = 2

\* The acceptance condition of the claim.
ValidOutput(o, v, path) ==
    LET a == Split(o, NL)
        p == <<"o", "k", " ", " ", TAB>> \o path \o <<TAB>>
    IN  /\ Len(a) >= 3
        /\ HasPrefix(a[1], v)
        /\ a[2] = <<"P", "A", "S", "S">>
        /\ HasPrefix(a[3], p)
        /\ ParseDuration(SubSeq(a[3], Len(p) + 1, Len(a[3]))).ok

\* C8: a captured output is accepted only if it has at least three lines,
\* the first starts with the identifier, the second is PASS, the third
\* starts with "ok  <TAB>importPath<TAB>" and its rest parses as a duration;
\* on any other output the run aborts, the identifier's line is not written
\* and the total is not changed.
C8_OnlyValidOutputAccepted ==
    /\ \A i \in 1..(bi - 1) :
           i <= Len(outs) /\ ValidOutput(outs[i].out, bench[i], importPath)
    /\ pc \notin {"check", "exit"} => Len(outs) = bi - 1
    /\ (pc = "exit" /\ Len(outs) = bi
          /\ ~ValidOutput(outs[bi].out, bench[bi], importPath)) =>
          /\ fatal \in {"exit", "unrecognized", "unexpected", "duration"}
          /\ Len(StdoutLines) = bi - 1
          /\ StdoutEndsLine
          /\ t = SumDurations(outs, bi - 1)

C8_Witness ==
    /\ pc = "exit"
    /\ fatal \in {"unrecognized", "unexpected", "duration"}
    /\ bi = 2
    /\ t > 0
    /\ ~ValidOutput(outs[2].out, bench[2], importPath)

\* C9: when the first line of an otherwise valid output does not parse as a
\* benchmark result line the run does not fail: the line is written as it
\* is, as the one line of the identifier, and the run goes on.
C9_UnparsedLinePassedThrough ==
    LET lines == StdoutLines
    IN  /\ \A i \in 1..(bi - 1) :
               LET first == Split(outs[i].out, NL)[1]
               IN  ~ParseLine(first).ok => i <= Len(lines) /\ lines[i] = first
        /\ pc \in {"loop", "wait", "check"} => Len(lines) = bi - 1
        /\ pc \notin {"check", "exit"} => Len(outs) = bi - 1
        /\ (pc = "exit" /\ Len(outs) = bi) =>
               \/ outs[bi].err
               \/ ~ValidOutput(outs[bi].out, bench[bi], importPath)

C9_Witness ==
    /\ variant = "A"
    /\ pc = "done"
    /\ bi >= 3
    /\ ~ParseLine(Split(outs[1].out, NL)[1]).ok
    /\ StdoutLines[1] = Split(outs[1].out, NL)[1]

\* The ns/op text of a written line: the field before "ns/op", <<>> if none.
PrintedNs(line) ==
    LET f == Fields(line)
        at == {k \in 2..Len(f) : f[k] = NsOp}
    IN  IF at = {} THEN <<>> ELSE f[Min(at) - 1]

\* The number of digits before the decimal point of a rendering.
IntegerDigits(r) ==
    LET dot == Index(r, ".")
    IN  Cardinality({k \in 1..dot : IsDigit(r[k])})

\* The records of the identifiers processed so far satisfy rule(rendering)
\* = the text written, and no ns/op text is written for a record without
\* the field.
NsRule(Rule(_)) ==
    variant = "A" =>
        \A i \in 1..(bi - 1) :
            LET b == ParseLine(Split(outs[i].out, NL)[1])
                printed == PrintedNs(StdoutLines[i])
            IN  b.ok =>
                    IF "NsPerOp" \in b.val.Measured
                    THEN printed = Rule(FormatF2(b.val.NsPerOp))
                    ELSE printed = <<>>

\* The rule by the digits of the integer part.
ClaimedRule(r) ==
    IF IntegerDigits(r) >= 3 THEN SubSeq(r, 1, Len(r) - 3) ELSE r

\* The rule by the characters before the decimal point.
AmendedRule(r) ==
    LET before == {k \in 1..Len(r) : \E j \in (k + 1)..Len(r) : r[j] = "."}
    IN  IF Cardinality(before) >= 3 THEN SubSeq(r, 1, Cardinality(before)) ELSE r

\* C10 as claimed: the value is rendered with two decimals and the last
\* three characters are removed if and only if the integer part has three
\* or more digits; no ns/op text is written when the field is absent.
C10_CutByIntegerDigits == NsRule(ClaimedRule)

\* C10 as amended: the last three characters are removed if and only if
\* three or more characters precede the decimal point of the rendering, the
\* minus sign of a negative value counted; NaN and the infinities have no
\* decimal point and are written as rendered; no ns/op text is written when
\* the field is absent.
C10_CutByCharactersBeforePoint == NsRule(AmendedRule)

C10_Witness ==
    /\ pc = "done"
    /\ Len(StdoutLines) = 3
    /\ PrintedNs(StdoutLines[1]) = <<"-", "1", "2">>
====
